---- MODULE Spec2Model ----
(***************************************************************************)
(* calculate_salary of app.py: the Shanghai take-home salary calculation   *)
(* by the cumulative withholding method, one call of the function.         *)
(*                                                                         *)
(* Arithmetic.  The code computes in Python floats.  The model computes    *)
(* the same expressions in exact decimal arithmetic: an amount is a pair   *)
(* <<yuan, frac>> standing for yuan + frac / Scale with 0 <= frac < Scale  *)
(* (two limbs, because the amounts of the upper brackets do not fit one    *)
(* machine integer at this resolution).  For integer inputs (the widgets   *)
(* of lines 43-45 yield integers) every value of the function is a         *)
(* multiple of 1 / Scale yuan, so no operation of the model rounds; the    *)
(* binary rounding error of the floats (a few units in the last place) is  *)
(* not modelled.  round(x, 2) of lines 88-90 is modelled as rounding to    *)
(* the nearest cent; on a half cent the float nearest to the decimal value *)
(* lies on either side, so either neighbour can come out: tie_up is that   *)
(* unknown, taken the same way throughout one call.  The properties below  *)
(* are stated on the unrounded values; of a rounded field they say only    *)
(* that it is one of the two outcomes of Round2.                           *)
(***************************************************************************)
EXTENDS Integers, Sequences, FiniteSets

\* ---------------------------------------------------------------- amounts

\* 1 / Scale yuan is the resolution: per-mille rates (0.005) of whole yuan,
\* then percent rates (0.03) of that.
Scale == 1000 * 100

Norm(y, f) == <<y + (f \div Scale), f % Scale>>

Yuan(n) == <<n, 0>>

Zero == Yuan(0)

Plus(a, b) == Norm(a[1] + b[1], a[2] + b[2])

Minus(a, b) == Norm(a[1] - b[1], a[2] - b[2])

\* a * k for an integer k
TimesInt(a, k) == Norm(a[1] * k, a[2] * k)

\* a * (n / d), for d dividing Scale; exact when d divides a[2] * n
TimesRate(a, n, d) ==
    LET yn == a[1] * n
    IN  Norm(yn \div d, (yn % d) * (Scale \div d) + ((a[2] * n) \div d))

\* a <= b
Leq(a, b) == a[1] < b[1] \/ (a[1] = b[1] /\ a[2] <= b[2])

\* Python max(a, b) / min(a, b) on amounts
Max(a, b) == IF Leq(b, a) THEN a ELSE b

MaxInt(a, b) == IF a >= b THEN a ELSE b

MinInt(a, b) == IF a <= b THEN a ELSE b

\* round(a, 2): the nearest multiple of 0.01; up tells which way a half cent goes
Round2(a, up) ==
    LET cent == Scale \div 100
        rest == a[2] % cent
        down == Norm(a[1], a[2] - rest)
    IN  IF rest * 2 < cent \/ (rest * 2 = cent /\ ~up)
        THEN down
        ELSE Plus(down, <<0, cent>>)

\* -------------------------------------------------------------- constants

SS_UPPER == 37302

SS_LOWER == 7460

\* the monthly exemption subtracted at line 70
EXEMPTION == 5000

\* range(1, 13)
MONTHS == 12

\* (limit, rate in percent, quick deduction); the last limit is float('inf')
TAX_BRACKETS ==
    << [limit |-> 36000,  unbounded |-> FALSE, rate |-> 3,  quick_sub |-> 0],
       [limit |-> 144000, unbounded |-> FALSE, rate |-> 10, quick_sub |-> 2520],
       [limit |-> 300000, unbounded |-> FALSE, rate |-> 20, quick_sub |-> 16920],
       [limit |-> 420000, unbounded |-> FALSE, rate |-> 25, quick_sub |-> 31920],
       [limit |-> 660000, unbounded |-> FALSE, rate |-> 30, quick_sub |-> 52920],
       [limit |-> 960000, unbounded |-> FALSE, rate |-> 35, quick_sub |-> 85920],
       [limit |-> 0,      unbounded |-> TRUE,  rate |-> 45, quick_sub |-> 181920] >>

\* ----------------------------------------------------------------- inputs

MaxGrossK == 16

MaxDeductionK == 3

\* values around the clamp limits, and ones whose fixed deduction has a half cent
EdgeGross == {-3000, 5000, 7459, 7460, 7461, 9999, 22000, 37301, 37302, 37303, 65000}

GrossInputs == {10000 * k : k \in 0..MaxGrossK} \cup EdgeGross

\* select_slider options of line 44
PF_OPTIONS == {5, 6, 7}

\* 1590 makes the cumulative income of (22000, 5) land on 36000 and 144000;
\* 3450 makes the monthly taxable delta of (10000, 5) zero
DeductionInputs == {1500 * k : k \in 0..MaxDeductionK} \cup {1590, 3450, 30000}

\* ------------------------------------------------------------------ state

VARIABLES
    pc,                         \* "call": at line 53; "loop": at line 68; "done": returned
    gross, pf_pct, deduction,   \* the arguments
    tie_up,                     \* which way round() takes a half cent in this call
    ss_base,
    total_fixed_deduction,
    month,                      \* the months processed so far
    cumulative_taxable_income,
    cumulative_tax_paid,
    bracket,                    \* index of the tuple last bound to (limit, rate, quick_sub)
    matched,                    \* whether the bracket loop left through break
    tax_to_pay_total,
    monthly_tax,
    take_home,
    monthly_details,
    history,                    \* the unrounded values of every iteration so far
    returned                    \* the returned tuple, <<>> before the return

vars == <<pc, gross, pf_pct, deduction, tie_up, ss_base, total_fixed_deduction, month,
          cumulative_taxable_income, cumulative_tax_paid, bracket, matched,
          tax_to_pay_total, monthly_tax, take_home, monthly_details, history, returned>>

\* ------------------------------------------------- the function's expressions

\* the floor applied, the ceiling forgotten
SsBaseNoCeiling(g) == MaxInt(g, SS_LOWER)

\* line 53
SsBase(g) == MinInt(MaxInt(g, SS_LOWER), SS_UPPER)

\* lines 56-59
Pension(base) == TimesRate(Yuan(base), 8, 100)

Medical(base) == TimesRate(Yuan(base), 2, 100)

Unemployment(base) == TimesRate(Yuan(base), 5, 1000)

\* unemployment insurance left out of the sum
SocialSecurityNoUnemployment(base) == Plus(Pension(base), Medical(base))

SocialSecurity(base) == Plus(Plus(Pension(base), Medical(base)), Unemployment(base))

\* line 60
ProvidentFund(base, pct) == TimesRate(Yuan(base), pct, 100)

\* line 61
TotalFixedDeduction(base, pct) == Plus(SocialSecurity(base), ProvidentFund(base, pct))

\* line 70
CurrentMonthTaxable(g, fixed, ded) ==
    Minus(Minus(Minus(Yuan(g), Yuan(EXEMPTION)), fixed), Yuan(ded))

\* = written for +=
AccumulateOverwrite(total, amount) == amount

\* line 71
Accumulate(total, amount) == Plus(total, amount)

\* < written for <=
WithinStrict(income, b) ==
    b.unbounded \/ (Leq(income, Yuan(b.limit)) /\ income # Yuan(b.limit))

\* line 76: cumulative_taxable_income <= limit
Within(income, b) == b.unbounded \/ Leq(income, Yuan(b.limit))

\* the quick deduction not subtracted
BracketTaxNoQuick(income, b) == TimesRate(income, b.rate, 100)

\* line 77
BracketTax(income, b) == Minus(TimesRate(income, b.rate, 100), Yuan(b.quick_sub))

\* lines 74-78: the loop over TAX_BRACKETS from tuple i on
RECURSIVE MatchFrom(_, _)
MatchFrom(income, i) ==
    IF i > Len(TAX_BRACKETS)
    THEN [bracket |-> Len(TAX_BRACKETS), matched |-> FALSE, total |-> Zero]
    ELSE IF Within(income, TAX_BRACKETS[i])
         THEN [bracket |-> i, matched |-> TRUE,
               total |-> BracketTax(income, TAX_BRACKETS[i])]
         ELSE MatchFrom(income, i + 1)

\* the loop without its break: the last tuple that matches wins
MatchBracketNoBreak(income) ==
    LET hits == {i \in 1..Len(TAX_BRACKETS) : Within(income, TAX_BRACKETS[i])}
        last == CHOOSE i \in hits : \A j \in hits : j <= i
    IN  IF hits = {}
        THEN [bracket |-> Len(TAX_BRACKETS), matched |-> FALSE, total |-> Zero]
        ELSE [bracket |-> Len(TAX_BRACKETS), matched |-> TRUE,
              total |-> BracketTax(income, TAX_BRACKETS[last])]

MatchBracket(income) == MatchFrom(income, 1)

\* the tax paid so far not subtracted
MonthlyTaxIgnoringPaid(total, paid) == Max(Zero, total)

\* max(0, ...) left out
MonthlyTaxUnclamped(total, paid) == Minus(total, paid)

\* line 81
MonthlyTax(total, paid) == Max(Zero, Minus(total, paid))

\* = written for +=
PayTaxOverwrite(paid, tax) == tax

\* line 82
PayTax(paid, tax) == Plus(paid, tax)

\* the special deduction subtracted from the cash as well
TakeHomeLessSpecial(g, fixed, tax) ==
    Minus(Minus(Minus(Yuan(g), fixed), tax), Yuan(deduction))

\* line 83
TakeHome(g, fixed, tax) == Minus(Minus(Yuan(g), fixed), tax)

\* lines 85-91
Detail(m, g, fixed, tax, cash, up) ==
    [month |-> m, pre_tax |-> g, insurance |-> Round2(fixed, up),
     tax |-> Round2(tax, up), cash |-> Round2(cash, up)]

\* line 93: total_fixed_deduction * 12
AnnualFixedDeduction(fixed) == TimesInt(fixed, 12)

\* ---------------------------------------------------------------- actions

\* line 95: the call, with the values of the three widgets
Init ==
    /\ pc = "call"
    /\ gross \in GrossInputs
    /\ pf_pct \in PF_OPTIONS
    /\ deduction \in DeductionInputs
    /\ tie_up \in BOOLEAN
    /\ ss_base = 0
    /\ total_fixed_deduction = Zero
    /\ month = 0
    /\ cumulative_taxable_income = Zero
    /\ cumulative_tax_paid = Zero
    /\ bracket = 0
    /\ matched = FALSE
    /\ tax_to_pay_total = Zero
    /\ monthly_tax = Zero
    /\ take_home = Zero
    /\ monthly_details = <<>>
    /\ history = <<>>
    /\ returned = <<>>

\* lines 53-66
Enter ==
    /\ pc = "call"
    /\ ss_base' = SsBase(gross)
    /\ total_fixed_deduction' = TotalFixedDeduction(ss_base', pf_pct)
    /\ cumulative_taxable_income' = Zero
    /\ cumulative_tax_paid' = Zero
    /\ monthly_details' = <<>>
    /\ pc' = "loop"
    /\ UNCHANGED <<gross, pf_pct, deduction, tie_up, month, bracket, matched,
                   tax_to_pay_total, monthly_tax, take_home, history, returned>>

\* lines 68-91: one iteration of the loop over the months
Iterate ==
    /\ pc = "loop"
    /\ month < MONTHS
    /\ month' = month + 1
    /\ cumulative_taxable_income' =
           Accumulate(cumulative_taxable_income,
                      CurrentMonthTaxable(gross, total_fixed_deduction, deduction))
    /\ LET m == MatchBracket(cumulative_taxable_income')
       IN  /\ bracket' = m.bracket
           /\ matched' = m.matched
           /\ tax_to_pay_total' = m.total
    /\ monthly_tax' = MonthlyTax(tax_to_pay_total', cumulative_tax_paid)
    /\ cumulative_tax_paid' = PayTax(cumulative_tax_paid, monthly_tax')
    /\ take_home' = TakeHome(gross, total_fixed_deduction, monthly_tax')
    /\ monthly_details' =
           Append(monthly_details,
                  Detail(month', gross, total_fixed_deduction, monthly_tax', take_home',
                         tie_up))
    /\ history' =
           Append(history,
                  [income |-> cumulative_taxable_income', due |-> tax_to_pay_total',
                   tax |-> monthly_tax', paid |-> cumulative_tax_paid',
                   cash |-> take_home', bracket |-> bracket', matched |-> matched'])
    /\ UNCHANGED <<pc, gross, pf_pct, deduction, tie_up, ss_base, total_fixed_deduction,
                   returned>>

\* line 93
Return ==
    /\ pc = "loop"
    /\ month = MONTHS
    /\ returned' = <<ss_base, monthly_details, cumulative_tax_paid,
                     AnnualFixedDeduction(total_fixed_deduction)>>
    /\ pc' = "done"
    /\ UNCHANGED <<gross, pf_pct, deduction, tie_up, ss_base, total_fixed_deduction, month,
                   cumulative_taxable_income, cumulative_tax_paid, bracket, matched,
                   tax_to_pay_total, monthly_tax, take_home, monthly_details, history>>

Next == Enter \/ Iterate \/ Return

Spec == Init /\ [][Next]_vars

\* every amount of the state is in normal form and every rate was applied without
\* remainder: the exact arithmetic above dropped nothing
IsAmount(a) == a[2] \in 0..(Scale - 1)

ExactArithmetic ==
    /\ IsAmount(total_fixed_deduction) /\ total_fixed_deduction[2] % 100 = 0
    /\ IsAmount(cumulative_taxable_income) /\ cumulative_taxable_income[2] % 100 = 0
    /\ IsAmount(tax_to_pay_total)
    /\ IsAmount(monthly_tax)
    /\ IsAmount(cumulative_tax_paid)
    /\ IsAmount(take_home)

\* --------------------------------------------- the quantities of the claims
\* Written from the statement of the calculation, independently of the
\* operators above: the clamp by cases, the rates as one sum, the bracket
\* as the least covering one.

ClampedBase ==
    IF gross < SS_LOWER THEN SS_LOWER ELSE IF gross > SS_UPPER THEN SS_UPPER ELSE gross

\* base * (8% + 2% + 0.5% + pf%), in per mille
FixedMonthlyDeduction == TimesRate(Yuan(ClampedBase), 80 + 20 + 5 + 10 * pf_pct, 1000)

MonthlyTaxableDelta ==
    Minus(Yuan(gross - EXEMPTION - deduction), FixedMonthlyDeduction)

Covers(k, x) == TAX_BRACKETS[k].unbounded \/ Leq(x, Yuan(TAX_BRACKETS[k].limit))

FirstCovering(x) ==
    CHOOSE k \in 1..Len(TAX_BRACKETS) : Covers(k, x) /\ \A j \in 1..(k - 1) : ~Covers(j, x)

ScheduleTax(x) ==
    LET b == TAX_BRACKETS[FirstCovering(x)]
    IN  Minus(TimesRate(x, b.rate, 100), Yuan(b.quick_sub))

NonNegative(a) == Leq(Zero, a)

Positive(a) == a # Zero /\ Leq(Zero, a)

\* a rounded to a cent, whichever way a half cent goes
Cents(a) == {Round2(a, FALSE), Round2(a, TRUE)}

ClampAtZero(a) == IF NonNegative(a) THEN a ELSE Zero

Months == 1..Len(history)

PaidBefore(i) == IF i = 1 THEN Zero ELSE history[i - 1].paid

RECURSIVE TaxSum(_)
TaxSum(k) == IF k = 0 THEN Zero ELSE Plus(TaxSum(k - 1), history[k].tax)

\* ---------------------------------------------------------------- claims

\* C1: the social-insurance base is the gross salary clamped to
\* [SS_LOWER, SS_UPPER]: gross itself inside the interval, 7460 below it (zero
\* and negative gross included), 37302 above it; it is the base returned, and
\* above 37302 the fixed deduction is that of 37302 whatever the gross is.
C1_BaseIsClampedGross ==
    pc # "call" =>
        /\ (SS_LOWER <= gross /\ gross <= SS_UPPER) => ss_base = gross
        /\ gross < SS_LOWER => ss_base = 7460
        /\ gross > SS_UPPER =>
               /\ ss_base = 37302
               /\ total_fixed_deduction = TimesRate(Yuan(37302), 105 + 10 * pf_pct, 1000)
        /\ pc = "done" => returned[1] = ss_base

C1_Witness == pc = "done" /\ gross > SS_UPPER /\ returned[1] = SS_UPPER

\* C2: in every month the tax withheld is >= 0 and equals
\* max(0, cumulative tax due of the month - cumulative tax paid before it).
C2_MonthlyTaxNeverNegative ==
    \A i \in Months :
        /\ NonNegative(history[i].tax)
        /\ history[i].tax = ClampAtZero(Minus(history[i].due, PaidBefore(i)))

C2_Witness ==
    /\ pc = "done"
    /\ \E i \in Months :
           /\ ~NonNegative(Minus(history[i].due, PaidBefore(i)))
           /\ history[i].tax = Zero

\* C3: after each month k the cumulative tax paid is the sum of the unrounded
\* monthly taxes of months 1..k, and the total annual tax returned is the sum
\* over the 12 months.
C3_TaxPaidIsSumOfMonthlyTaxes ==
    /\ \A k \in Months : history[k].paid = TaxSum(k)
    /\ pc # "call" => cumulative_tax_paid = TaxSum(Len(history))
    /\ pc = "done" => Len(history) = 12 /\ returned[3] = TaxSum(12)

C3_Witness ==
    /\ pc = "done"
    /\ Positive(history[1].tax)
    /\ history[12].tax # history[1].tax
    /\ returned[3] = TaxSum(12)

\* C4: in every month, take-home cash is gross minus the fixed monthly
\* deduction minus the tax withheld in that month; the special deduction is not
\* subtracted from it.  The month record carries that amount rounded to a cent.
C4_TakeHomeIsGrossLessDeductionLessTax ==
    \A i \in Months :
        LET cash == Minus(Minus(Yuan(gross), FixedMonthlyDeduction), history[i].tax)
        IN  /\ history[i].cash = cash
            /\ monthly_details[i].cash \in Cents(cash)
            /\ monthly_details[i].pre_tax = gross

C4_Witness ==
    /\ pc = "done"
    /\ deduction > 0
    /\ Positive(history[12].tax)
    /\ history[12].cash # history[1].cash

\* C5: the fixed monthly deduction is base * (8% + 2% + 0.5% + pf%), the loop
\* over the months leaves it unchanged, all 12 month records carry the same
\* value of it, and the annual aggregate returned is 12 times it.
C5_FixedDeductionConstant ==
    /\ pc # "call" => total_fixed_deduction = FixedMonthlyDeduction
    /\ \A i \in 1..Len(monthly_details) :
           /\ monthly_details[i].insurance = monthly_details[1].insurance
           /\ monthly_details[i].insurance \in Cents(FixedMonthlyDeduction)
    /\ pc = "done" =>
           /\ Len(returned[2]) = 12
           /\ returned[4] =
                  TimesRate(Yuan(12 * ClampedBase), 80 + 20 + 5 + 10 * pf_pct, 1000)

C5_Witness ==
    /\ pc = "done"
    /\ total_fixed_deduction[2] # 0
    /\ returned[4] # total_fixed_deduction
    /\ Len(monthly_details) = 12

\* C6: cumulative taxable income starts at 0 and after month m is the value after
\* month m-1 plus (gross - 5000 - fixed deduction - special deduction), that is
\* m times the monthly taxable delta; no other step of the iteration alters it.
C6_CumulativeIncomeAccumulates ==
    /\ (pc = "loop" /\ month = 0) => cumulative_taxable_income = Zero
    /\ pc # "call" => Len(history) = month
    /\ \A m \in Months :
           /\ history[m].income =
                  Plus(IF m = 1 THEN Zero ELSE history[m - 1].income, MonthlyTaxableDelta)
           /\ history[m].income = TimesInt(MonthlyTaxableDelta, m)
    /\ month > 0 => cumulative_taxable_income = history[month].income

C6_Witness ==
    /\ pc = "done"
    /\ Positive(MonthlyTaxableDelta)
    /\ cumulative_taxable_income = TimesInt(MonthlyTaxableDelta, 12)

\* C7: when the monthly taxable delta is <= 0, in every month the cumulative
\* taxable income is <= 0, the first (3%) bracket is applied with a cumulative
\* tax due <= 0, the tax withheld is 0 and take-home cash is gross minus the
\* fixed monthly deduction; the total annual tax is 0.
C7_NoTaxWithoutTaxableIncome ==
    Leq(MonthlyTaxableDelta, Zero) =>
        /\ \A i \in Months :
               /\ Leq(history[i].income, Zero)
               /\ history[i].matched /\ history[i].bracket = 1
               /\ history[i].due = TimesRate(history[i].income, 3, 100)
               /\ Leq(history[i].due, Zero)
               /\ history[i].tax = Zero
               /\ monthly_details[i].tax = Zero
               /\ history[i].cash = Minus(Yuan(gross), FixedMonthlyDeduction)
        /\ pc # "call" => cumulative_tax_paid = Zero
        /\ pc = "done" => returned[3] = Zero

C7_Witness ==
    /\ pc = "done"
    /\ Leq(MonthlyTaxableDelta, Zero)
    /\ gross > EXEMPTION
    /\ ~NonNegative(history[12].due)
    /\ returned[3] = Zero

C9_FirstCoveringBracketApplies ==
    \A i \in Months :
        LET x == history[i].income
            k == history[i].bracket
        IN  /\ history[i].matched
            /\ k = FirstCovering(x)
            /\ k = Cardinality({j \in 1..6 : ~Leq(x, Yuan(TAX_BRACKETS[j].limit))}) + 1
            /\ history[i].due =
                   Minus(TimesRate(x, TAX_BRACKETS[k].rate, 100),
                         Yuan(TAX_BRACKETS[k].quick_sub))
            /\ x = Yuan(36000) => k = 1
            /\ x = Yuan(144000) => k = 2
            /\ ~Leq(x, Yuan(960000)) =>
                   history[i].due = Minus(TimesRate(x, 45, 100), Yuan(181920))

C9_Witness ==
    /\ pc = "done"
    /\ \E i, j \in Months :
           /\ history[i].income = Yuan(36000) /\ history[i].bracket = 1
           /\ history[j].income = Yuan(144000) /\ history[j].bracket = 2

\* C10: after every month m the cumulative tax paid is max(0, cumulative tax due
\* of month m), the tax due being the bracket formula on m times the monthly
\* taxable delta; the annual total tax is max(0, bracket tax on 12 deltas).
C10_TaxPaidIsTaxDueToDate ==
    /\ \A m \in Months :
           /\ history[m].due = ScheduleTax(TimesInt(MonthlyTaxableDelta, m))
           /\ history[m].paid = ClampAtZero(history[m].due)
    /\ pc = "done" =>
           returned[3] = ClampAtZero(ScheduleTax(TimesInt(MonthlyTaxableDelta, 12)))

C10_Witness ==
    /\ pc = "done"
    /\ history[12].bracket = 7
    /\ history[1].bracket < 7
    /\ returned[3] = history[12].due

====
